---------------------------- MODULE Spec2Model ----------------------------
(***************************************************************************)
(* Matrix-multiplication kernels of assign1/mul-rust (naive, line,         *)
(* transposed-B, blocked, rayon-parallel) and the CSV benchmark driver.    *)
(*                                                                         *)
(* A matrix is a flat row-major sequence; the source indexes from 0, a     *)
(* TLA+ sequence from 1, so At(m, off) reads offset off of m.  Entries are *)
(* small integers, on which f64 addition and multiplication are exact.     *)
(***************************************************************************)
EXTENDS Integers, Sequences, FiniteSets, TLC

VARIABLES
    kernel,        \* the kernel being called, "" before any call
    a, b,          \* the operands as passed (flat sequences)
    side_arg,      \* the `side` argument of basic_matrix_multiplication
    bk_size,       \* the block-size argument of the blocked kernels
    pc,            \* position of the call
    side,          \* the local `side`
    res,           \* the local result buffer (`res` / `result`)
    res_allocated, \* the result buffer has been allocated
    loop,          \* loop indices of a sequential blocked kernel
    b_transposed,  \* the local transposed copy of b
    transposed,    \* the transpose loop has run
    units,         \* rayon units of work: per chunk index, [st, lp]
    nworkers,      \* size of the rayon pool running the units
    wrote,         \* <<unit, offset>> for every cell a unit has written
    korder,        \* per cell of the result, the k of every product added to
                   \* it so far, in the order they were added
    outcome,       \* what the caller got: "none", "None", "Some", "panic"
    dpc,           \* position of the benchmark driver (main of main.rs)
    iterations,    \* its `iterations`
    test_flag,     \* its `test_flag`
    size_idx,      \* index of the current size in the sweep
    bk_idx,        \* index of the current block size
    iter,          \* the current `iter`
    files,         \* the CSV files: per path, NoFile or the records it holds
    calls,         \* per path, the records passed to write_csv_record so far
    warnings,      \* warnings printed to stderr
    runs,          \* runs of a driver program so far
    results_csv,   \* results.csv of the driver of extra/parallel.rs
    exp_choice,    \* its `exp_choice`
    total_secs,    \* its `total_secs`, in elapsed readings added up
    recorded,      \* timing records main has written for the configuration in
                   \* progress (one size and kernel, and block size), this run
    finished       \* the configurations ended by the latest step that ended
                   \* any: iteration count, invocations made, records written

kvars == <<kernel, a, b, side_arg, bk_size, pc, side, res, res_allocated, loop,
           b_transposed, transposed, units, nworkers, wrote, korder, outcome>>

xvars == <<results_csv, exp_choice, total_secs>>

gvars == <<recorded, finished>>

dvars == <<dpc, iterations, test_flag, size_idx, bk_idx, iter, files, calls,
           warnings, runs, xvars, gvars>>

vars == <<kvars, dvars>>

-----------------------------------------------------------------------------
(* Bounds of the model *)

MaxSide == 3
MaxBk == 3
MaxWorkers == 2
MaxIterations == 2
MaxRuns == 2

-----------------------------------------------------------------------------
(* Helpers *)

Min(x, y) == IF x <= y THEN x ELSE y

At(m, off) == m[off + 1]

\* ss[1] \o ss[2] \o ... \o ss[n]: the iterations of a loop, one after another
RECURSIVE ConcatFrom(_, _)
ConcatFrom(ss, n) == IF n = 0 THEN <<>> ELSE ConcatFrom(ss, n - 1) \o ss[n]

Concat(ss) == ConcatFrom(ss, Cardinality(DOMAIN ss))

\* vec![0.0; length]
Zeros(length) == [o \in 1..length |-> 0]

\* (length as f64).sqrt().fract() == 0.0
IsPerfectSquare(length) == \E s \in 0..length : s * s = length

\* side_f64 as usize, for a perfect square
SqrtSide(length) == CHOOSE s \in 0..length : s * s = length


-----------------------------------------------------------------------------
(* The kernels *)

Kernels ==
    { "basic_matrix_multiplication", "line_matrix_multiplication",
      "block_matrix_multiplication", "on_mult_line_flat", "unsafe_mul_line",
      "final_mul_line", "extra_final_mul_line",
      "final_mul_block", "extra_final_mul_block",
      "final_mul_line_parallel", "parallel_mul_block" }

\* kernels that take a block size
BlockedKernels ==
    { "block_matrix_multiplication", "final_mul_block", "extra_final_mul_block",
      "parallel_mul_block" }

\* kernels that build b_transposed and multiply by it
TransposingKernels ==
    { "unsafe_mul_line", "final_mul_line", "extra_final_mul_line",
      "final_mul_block", "extra_final_mul_block",
      "final_mul_line_parallel", "parallel_mul_block" }

\* kernels whose precondition checks are assert_eq! / assert!
AssertingKernels ==
    { "final_mul_line", "final_mul_block", "final_mul_line_parallel",
      "parallel_mul_block" }

\* kernels that walk the rows with chunks_exact(side)
ChunksExactKernels == { "final_mul_line", "extra_final_mul_line" }

ParallelKernels == { "final_mul_line_parallel", "parallel_mul_block" }

\* b_transposed[j * side + i] = b[i * side + j]
TransposeOf(bb, sd) ==
    [o \in 1..(sd * sd) |-> At(bb, ((o - 1) % sd) * sd + ((o - 1) \div sd))]

\* TileEnd without the clipping: the tile always runs its full bk
TileEndUnclipped(origin, bk, sd) == origin + bk

\* (origin + bk_size).min(side)
TileEnd(origin, bk, sd) == Min(origin + bk, sd)

\* One run of the innermost j loop: for fixed i and k, j goes jlo..jhi.
Sweep(i, k, jlo, jhi) == [i |-> i, k |-> k, jlo |-> jlo, jhi |-> jhi]

\* for i in 0..side { for k in 0..side { for j in 0..side
LineSweeps(sd) ==
    Concat([x \in 1..sd |-> [y \in 1..sd |-> Sweep(x - 1, y - 1, 0, sd)]])

\* The indices of a loop nest; done when the nest has run out of iterations.
LoopAt(ii, jj, kk, i, k) ==
    [ii |-> ii, jj |-> jj, kk |-> kk, i |-> i, k |-> k, done |-> FALSE]

NoLoop == [ii |-> 0, jj |-> 0, kk |-> 0, i |-> 0, k |-> 0, done |-> TRUE]

\* for ii, jj, kk in (0..side).step_by(bk) { for i in ii..end { for k in kk..end
\* entered: every loop at its first value (none when side = 0)
BlockFirst(sd) == IF sd = 0 THEN NoLoop ELSE LoopAt(0, 0, 0, 0, 0)

\* BlockNext with the kk loop leaving out a last tile shorter than bk
BlockNextFullTilesOnly(lp, sd, bk) ==
    IF lp.k + 1 < TileEnd(lp.kk, bk, sd)
    THEN LoopAt(lp.ii, lp.jj, lp.kk, lp.i, lp.k + 1)
    ELSE IF lp.i + 1 < TileEnd(lp.ii, bk, sd)
    THEN LoopAt(lp.ii, lp.jj, lp.kk, lp.i + 1, lp.kk)
    ELSE IF lp.kk + 2 * bk <= sd
    THEN LoopAt(lp.ii, lp.jj, lp.kk + bk, lp.ii, lp.kk + bk)
    ELSE IF lp.jj + bk < sd
    THEN LoopAt(lp.ii, lp.jj + bk, 0, lp.ii, 0)
    ELSE IF lp.ii + bk < sd
    THEN LoopAt(lp.ii + bk, 0, 0, lp.ii + bk, 0)
    ELSE NoLoop

\* the innermost loop that has a next value takes it; those inside restart
BlockNext(lp, sd, bk) ==
    IF lp.k + 1 < TileEnd(lp.kk, bk, sd)
    THEN LoopAt(lp.ii, lp.jj, lp.kk, lp.i, lp.k + 1)
    ELSE IF lp.i + 1 < TileEnd(lp.ii, bk, sd)
    THEN LoopAt(lp.ii, lp.jj, lp.kk, lp.i + 1, lp.kk)
    ELSE IF lp.kk + bk < sd
    THEN LoopAt(lp.ii, lp.jj, lp.kk + bk, lp.ii, lp.kk + bk)
    ELSE IF lp.jj + bk < sd
    THEN LoopAt(lp.ii, lp.jj + bk, 0, lp.ii, 0)
    ELSE IF lp.ii + bk < sd
    THEN LoopAt(lp.ii + bk, 0, 0, lp.ii + bk, 0)
    ELSE NoLoop

\* the closure of a parallel kernel on chunk index ii, entered:
\*   final_mul_line_parallel: for k in 0..side
\*   parallel_mul_block: for jj, kk in step_by(bk) { for k in kk..end
UnitFirst(ii, sd) == IF sd = 0 THEN NoLoop ELSE LoopAt(ii, 0, 0, ii, 0)

UnitNext(kn, lp, sd, bk) ==
    IF kn = "final_mul_line_parallel"
    THEN IF lp.k + 1 < sd THEN LoopAt(lp.ii, 0, 0, lp.i, lp.k + 1) ELSE NoLoop
    ELSE IF lp.k + 1 < TileEnd(lp.kk, bk, sd)
    THEN LoopAt(lp.ii, lp.jj, lp.kk, lp.i, lp.k + 1)
    ELSE IF lp.kk + bk < sd
    THEN LoopAt(lp.ii, lp.jj, lp.kk + bk, lp.i, lp.kk + bk)
    ELSE IF lp.jj + bk < sd
    THEN LoopAt(lp.ii, lp.jj + bk, 0, lp.i, 0)
    ELSE NoLoop

\* SweepAt with the j loop over the whole row in every tile
SweepAtWholeRow(kn, lp, sd, bk) == Sweep(lp.i, lp.k, 0, sd)

\* the j loop run at loop indices lp: 0..side in the line kernels (the zip
\* of res_row with b_trans_row), jj..(jj + bk).min(side) in the blocked ones
SweepAt(kn, lp, sd, bk) ==
    IF kn \in BlockedKernels
    THEN Sweep(lp.i, lp.k, lp.jj, TileEnd(lp.jj, bk, sd))
    ELSE Sweep(lp.i, lp.k, 0, sd)

\* every index of the sweep is inside its slice (else the indexing panics)
SweepInBounds(r, base, lim, s, aa, bm, sd) ==
    /\ s.jhi <= lim
    /\ base + s.jhi <= Len(r)
    /\ s.i * sd + s.k < Len(aa)
    /\ s.k * sd + s.jhi <= Len(bm)

\* res_row[j] += a_val * b_row[j] for j in jlo..jhi, res_row starting at base
ApplySweep(r, base, s, aa, bm, sd) ==
    SubSeq(r, 1, base + s.jlo)
        \o [x \in 1..(s.jhi - s.jlo) |->
               r[base + s.jlo + x]
                   + At(aa, s.i * sd + s.k) * At(bm, s.k * sd + s.jlo + x - 1)]
        \o SubSeq(r, base + s.jhi + 1, Len(r))

RECURSIVE Accumulate(_, _, _, _, _)
Accumulate(r, sweeps, aa, bm, sd) ==
    IF sweeps = <<>> THEN r
    ELSE Accumulate(ApplySweep(r, Head(sweeps).i * sd, Head(sweeps), aa, bm, sd),
                    Tail(sweeps), aa, bm, sd)

\* before any `+=`: no product has been added to any cell
NothingAdded(length) == [o \in 1..length |-> <<>>]

\* the sweep adds a product with inner index k to each cell it runs over
RecordSweep(h, base, s) ==
    SubSeq(h, 1, base + s.jlo)
        \o [x \in 1..(s.jhi - s.jlo) |-> Append(h[base + s.jlo + x], s.k)]
        \o SubSeq(h, base + s.jhi + 1, Len(h))

RECURSIVE RecordAll(_, _, _)
RecordAll(h, sweeps, sd) ==
    IF sweeps = <<>> THEN h
    ELSE RecordAll(RecordSweep(h, Head(sweeps).i * sd, Head(sweeps)), Tail(sweeps), sd)

\* ChunkSize with chunks one cell longer than a row
ChunkSizeRowPlusOne(sd) == sd + 1

\* res.par_chunks_exact_mut(side) / res.par_chunks_mut(side)
ChunkSize(sd) == sd

NumChunks(kn, length, cs) ==
    IF kn = "final_mul_line_parallel" THEN length \div cs
    ELSE (length + cs - 1) \div cs

ChunkStart(u, cs) == u * cs

ChunkLen(u, length, cs) == Min(cs, length - u * cs)

-----------------------------------------------------------------------------
(* Operands handed to the kernels *)

\* (0..size * size).map(|i| (i % 10) as f64), for any flat length
CyclicSeq(length) == [o \in 1..length |-> (o - 1) % 10]

generate_matrix(size) == CyclicSeq(size * size)

Identity(n) == [o \in 1..(n * n) |-> IF (o - 1) \div n = (o - 1) % n THEN 1 ELSE 0]

\* A = [[1,2],[3,4]] and B = [[5,6],[7,8]]
ScenarioA == <<1, 2, 3, 4>>
ScenarioB == <<5, 6, 7, 8>>

\* square and non-square flat sequences up to MaxSide * MaxSide values
Operands ==
    {CyclicSeq(l) : l \in 0..(MaxSide * MaxSide)}
        \cup {Identity(n) : n \in 1..MaxSide}
        \cup {ScenarioA, ScenarioB}

-----------------------------------------------------------------------------
(* One kernel call, step by step *)

KInit ==
    /\ kernel = ""
    /\ a = <<>>
    /\ b = <<>>
    /\ side_arg = 0
    /\ bk_size = 0
    /\ pc = "idle"
    /\ side = 0
    /\ res = <<>>
    /\ res_allocated = FALSE
    /\ loop = NoLoop
    /\ b_transposed = <<>>
    /\ transposed = FALSE
    /\ units = <<>>
    /\ nworkers = 0
    /\ wrote = {}
    /\ korder = <<>>
    /\ outcome = "none"

\* the caller invokes a kernel kn on (aa, bb); basic_matrix_multiplication
\* also takes `side` sa, a blocked kernel a block size bk
Call ==
    /\ pc = "idle"
    /\ \E kn \in Kernels, aa \in Operands, bb \in Operands :
         \E sa \in (IF kn = "basic_matrix_multiplication" THEN 0..MaxSide ELSE {0}),
            bk \in (IF kn \in BlockedKernels THEN 0..MaxBk ELSE {0}) :
              /\ kernel' = kn
              /\ a' = aa
              /\ b' = bb
              /\ side_arg' = sa
              /\ bk_size' = bk
    /\ pc' = "check"
    /\ UNCHANGED <<side, res, res_allocated, loop, b_transposed, transposed, units,
                   nworkers, wrote, outcome>>
    /\ UNCHANGED korder
    /\ UNCHANGED dvars

\* the precondition fails: a.len() != b.len(), or the length is no square
DimensionMismatch(kn, aa, bb, sa) ==
    IF kn = "basic_matrix_multiplication"
    THEN Len(aa) # sa * sa \/ Len(bb) # sa * sa
    ELSE Len(aa) # Len(bb) \/ ~IsPerfectSquare(Len(aa))

\* what a failed precondition does: return None, or assert_eq!/assert! panics
MismatchOutcome(kn) == IF kn \in AssertingKernels THEN "panic" ELSE "None"

CheckDims ==
    /\ pc = "check"
    /\ IF DimensionMismatch(kernel, a, b, side_arg)
       THEN /\ outcome' = MismatchOutcome(kernel)
            /\ pc' = IF outcome' = "panic" THEN "panicked" ELSE "returned"
            /\ side' = side
       ELSE /\ side' = IF kernel = "basic_matrix_multiplication"
                       THEN side_arg ELSE SqrtSide(Len(a))
            /\ pc' = "alloc"
            /\ outcome' = outcome
    /\ UNCHANGED <<kernel, a, b, side_arg, bk_size, res, res_allocated, loop,
                   b_transposed, transposed, units, nworkers, wrote>>
    /\ UNCHANGED korder
    /\ UNCHANGED dvars

\* let mut res = vec![0.0; length]; let mut b_transposed = vec![0.0; length];
Alloc ==
    /\ pc = "alloc"
    /\ res' = Zeros(side * side)
    /\ res_allocated' = TRUE
    /\ korder' = NothingAdded(side * side)
    /\ b_transposed' = IF kernel \in TransposingKernels
                       THEN Zeros(side * side) ELSE b_transposed
    /\ pc' = IF kernel \in TransposingKernels THEN "transpose"
             ELSE IF kernel \in BlockedKernels THEN "blockcheck"
             ELSE "compute"
    /\ UNCHANGED <<kernel, a, b, side_arg, bk_size, side, loop, transposed, units,
                   nworkers, wrote, outcome>>
    /\ UNCHANGED dvars

Transpose ==
    /\ pc = "transpose"
    /\ b_transposed' = TransposeOf(b, side)
    /\ transposed' = TRUE
    /\ pc' = IF kernel \in BlockedKernels THEN "blockcheck"
             ELSE IF kernel \in ParallelKernels THEN "fork"
             ELSE "compute"
    /\ UNCHANGED <<kernel, a, b, side_arg, bk_size, side, res, res_allocated, loop,
                   units, nworkers, wrote, outcome>>
    /\ UNCHANGED korder
    /\ UNCHANGED dvars

\* debug_assert!(bk_size > 0) in a debug build; (0..side).step_by(0) panics
\* in any build.  In parallel_mul_block the step_by sits inside the closure,
\* so a release build gets as far as the units.
BlockCheck(debug) ==
    /\ pc = "blockcheck"
    /\ IF bk_size = 0 /\ (kernel # "parallel_mul_block" \/ debug)
       THEN /\ outcome' = "panic"
            /\ pc' = "panicked"
       ELSE /\ outcome' = outcome
            /\ pc' = IF kernel \in ParallelKernels THEN "fork" ELSE "compute"
    /\ UNCHANGED <<kernel, a, b, side_arg, bk_size, side, res, res_allocated, loop,
                   b_transposed, transposed, units, nworkers, wrote>>
    /\ UNCHANGED korder
    /\ UNCHANGED dvars

\* the matrix the multiplication reads as its right operand
RightOperand(kn, bb, bt) == IF kn \in TransposingKernels THEN bt ELSE bb

\* the loops of a line kernel; a.chunks_exact(0) panics
ComputeLine ==
    /\ pc = "compute"
    /\ kernel \notin BlockedKernels
    /\ IF kernel \in ChunksExactKernels /\ side = 0
       THEN /\ outcome' = "panic"
            /\ pc' = "panicked"
            /\ UNCHANGED <<res, korder>>
       ELSE /\ res' = Accumulate(res, LineSweeps(side), a,
                                 RightOperand(kernel, b, b_transposed), side)
            /\ korder' = RecordAll(korder, LineSweeps(side), side)
            /\ pc' = "computed"
            /\ outcome' = outcome
    /\ UNCHANGED <<kernel, a, b, side_arg, bk_size, side, res_allocated, loop,
                   b_transposed, transposed, units, nworkers, wrote>>
    /\ UNCHANGED dvars

\* the tile loops of a sequential blocked kernel are entered
EnterBlocks ==
    /\ pc = "compute"
    /\ kernel \in BlockedKernels
    /\ loop' = BlockFirst(side)
    /\ pc' = IF loop'.done THEN "computed" ELSE "tiles"
    /\ UNCHANGED <<kernel, a, b, side_arg, bk_size, side, res, res_allocated,
                   b_transposed, transposed, units, nworkers, wrote, outcome>>
    /\ UNCHANGED korder
    /\ UNCHANGED dvars

\* the length of the slice the j loop of a sequential blocked kernel indexes:
\* res_row = &mut res[i * side..(i + 1) * side] in final_mul_block, the rest
\* of `result` from i * side on in block_matrix_multiplication
RowLimit(kn, r, base, sd) ==
    IF kn = "block_matrix_multiplication" THEN Len(r) - base ELSE sd

\* one j loop of a sequential blocked kernel, then the loop nest advances;
\* an index outside its slice panics
ComputeBlock ==
    /\ pc = "tiles"
    /\ LET s == SweepAt(kernel, loop, side, bk_size)
           base == loop.i * side
           bm == RightOperand(kernel, b, b_transposed)
       IN IF SweepInBounds(res, base, RowLimit(kernel, res, base, side), s, a, bm, side)
          THEN /\ res' = ApplySweep(res, base, s, a, bm, side)
               /\ korder' = RecordSweep(korder, base, s)
               /\ loop' = BlockNext(loop, side, bk_size)
               /\ pc' = IF loop'.done THEN "computed" ELSE "tiles"
               /\ outcome' = outcome
          ELSE /\ outcome' = "panic"
               /\ pc' = "panicked"
               /\ UNCHANGED <<res, loop, korder>>
    /\ UNCHANGED <<kernel, a, b, side_arg, bk_size, side, res_allocated,
                   b_transposed, transposed, units, nworkers, wrote>>
    /\ UNCHANGED dvars

\* Some(res)
Return ==
    /\ pc = "computed"
    /\ outcome' = "Some"
    /\ pc' = "returned"
    /\ UNCHANGED <<kernel, a, b, side_arg, bk_size, side, res, res_allocated, loop,
                   b_transposed, transposed, units, nworkers, wrote>>
    /\ UNCHANGED korder
    /\ UNCHANGED dvars

-----------------------------------------------------------------------------
(* The parallel kernels: rayon runs one unit of work per chunk of res *)

Running(us) == {u \in DOMAIN us : us[u].st = "running"}

\* par_chunks_exact_mut(side) / par_chunks_mut(side) panic on a chunk size of 0
Fork(nw) ==
    /\ pc = "fork"
    /\ IF ChunkSize(side) = 0
       THEN /\ outcome' = "panic"
            /\ pc' = "panicked"
            /\ UNCHANGED <<units, nworkers>>
       ELSE /\ units' = [u \in 0..(NumChunks(kernel, Len(res), ChunkSize(side)) - 1)
                            |-> [st |-> "pending", lp |-> NoLoop]]
            /\ nworkers' = nw
            /\ pc' = "par"
            /\ outcome' = outcome
    /\ UNCHANGED <<kernel, a, b, side_arg, bk_size, side, res, res_allocated, loop,
                   b_transposed, transposed, wrote>>
    /\ UNCHANGED korder
    /\ UNCHANGED dvars

\* an idle worker picks up chunk u and enters the closure; in
\* parallel_mul_block (0..side).step_by(0) panics there
UnitStart(u) ==
    /\ pc = "par"
    /\ units[u].st = "pending"
    /\ Cardinality(Running(units)) < nworkers
    /\ units' = [units EXCEPT ![u] =
                    IF kernel = "parallel_mul_block" /\ bk_size = 0
                    THEN [st |-> "panicked", lp |-> NoLoop]
                    ELSE [st |-> "running", lp |-> UnitFirst(u, side)]]
    /\ UNCHANGED <<kernel, a, b, side_arg, bk_size, pc, side, res, res_allocated,
                   loop, b_transposed, transposed, nworkers, wrote, outcome>>
    /\ UNCHANGED korder
    /\ UNCHANGED dvars

\* the closure of chunk u runs its next j loop on its own slice res_chunk,
\* then its loop nest advances
UnitStep(u) ==
    /\ pc = "par"
    /\ units[u].st = "running"
    /\ LET s == SweepAt(kernel, units[u].lp, side, bk_size)
           base == ChunkStart(u, ChunkSize(side))
           lim == ChunkLen(u, Len(res), ChunkSize(side))
           nxt == UnitNext(kernel, units[u].lp, side, bk_size)
       IN IF SweepInBounds(res, base, lim, s, a, b_transposed, side)
          THEN /\ res' = ApplySweep(res, base, s, a, b_transposed, side)
               /\ korder' = RecordSweep(korder, base, s)
               /\ wrote' = wrote \cup {<<u, base + j>> : j \in s.jlo..(s.jhi - 1)}
               /\ units' = [units EXCEPT ![u] =
                               [st |-> IF nxt.done THEN "done" ELSE "running",
                                lp |-> nxt]]
          ELSE /\ units' = [units EXCEPT ![u].st = "panicked"]
               /\ UNCHANGED <<res, wrote, korder>>
    /\ UNCHANGED <<kernel, a, b, side_arg, bk_size, pc, side, res_allocated, loop,
                   b_transposed, transposed, nworkers, outcome>>
    /\ UNCHANGED dvars

\* JoinReady without the barrier: one finished unit is enough
JoinReadyAfterOne(us) == \E u \in DOMAIN us : us[u].st = "done"

\* for_each returns once every unit has run to its end
JoinReady(us) == \A u \in DOMAIN us : us[u].st = "done"

Join ==
    /\ pc = "par"
    /\ JoinReady(units)
    /\ pc' = "computed"
    /\ UNCHANGED <<kernel, a, b, side_arg, bk_size, side, res, res_allocated, loop,
                   b_transposed, transposed, units, nworkers, wrote, outcome>>
    /\ UNCHANGED korder
    /\ UNCHANGED dvars

\* a unit panicked: rayon lets the running units finish and resumes the panic
JoinPanic ==
    /\ pc = "par"
    /\ \E u \in DOMAIN units : units[u].st = "panicked"
    /\ Running(units) = {}
    /\ outcome' = "panic"
    /\ pc' = "panicked"
    /\ UNCHANGED <<kernel, a, b, side_arg, bk_size, side, res, res_allocated, loop,
                   b_transposed, transposed, units, nworkers, wrote>>
    /\ UNCHANGED korder
    /\ UNCHANGED dvars

-----------------------------------------------------------------------------
(* The kernels as functions of their arguments, for valid operands *)

\* what basic_matrix_multiplication / line_matrix_multiplication /
\* on_mult_line_flat return: Some(result)
NaiveValue(aa, bb, sd) == Accumulate(Zeros(sd * sd), LineSweeps(sd), aa, bb, sd)

\* what final_mul_line / unsafe_mul_line return: Some(res)
FinalMulLineValue(aa, bb, sd) ==
    Accumulate(Zeros(sd * sd), LineSweeps(sd), aa, TransposeOf(bb, sd), sd)

\* the tile loops of final_mul_block from loop indices lp on, run to their end
RECURSIVE BlockRun(_, _, _, _, _, _)
BlockRun(r, lp, aa, bm, sd, bk) ==
    IF lp.done THEN r
    ELSE BlockRun(ApplySweep(r, lp.i * sd, SweepAt("final_mul_block", lp, sd, bk),
                             aa, bm, sd),
                  BlockNext(lp, sd, bk), aa, bm, sd, bk)

\* what final_mul_block returns for bk >= 1: Some(res)
FinalMulBlockValue(aa, bb, sd, bk) ==
    BlockRun(Zeros(sd * sd), BlockFirst(sd), aa, TransposeOf(bb, sd), sd, bk)

\* the call has ended, by a return or by a panic
Finished == pc \in {"returned", "panicked"}

ReturnedSome == pc = "returned" /\ outcome = "Some"

-----------------------------------------------------------------------------
(* The benchmark driver: main of main.rs and its CSV files *)

\* how a call of kernel kn ends: "Some", "None" or "panic"
KernelOutcome(kn, aa, bb, sa, bk) ==
    IF DimensionMismatch(kn, aa, bb, sa) THEN MismatchOutcome(kn)
    ELSE IF kn \in BlockedKernels /\ bk = 0 THEN "panic"
    ELSE IF kn \in (ChunksExactKernels \cup ParallelKernels) /\ Len(aa) = 0
    THEN "panic"
    ELSE "Some"

\* The sweeps.  The source measures sides 600..3000 and 4096..10240 with
\* block sizes 128, 256, 512; the model keeps the shape of the sweeps (a
\* shorter one under "test", three block sizes) on sides it can multiply.
basic_sizes(test) == IF test THEN <<1, 2>> ELSE <<1, 2, 3>>

block_sizes(test) == IF test THEN <<1, 2>> ELSE <<2, 3>>

DriverBlockSizes == <<1, 2, 3>>

\* start.elapsed() as seconds, to_string(): one reading stands for all
Durations == {"0.000001"}

Header == <<"iteration", "time_sec">>

\* format!("basic/basic_matrix_{}.csv", size), format!("line/..."),
\* format!("block/block_matrix_{}_block_{}.csv", size, block_size)
basic_file(size) == <<"basic/basic_matrix_", size, ".csv">>
line_file(size) == <<"line/line_matrix_", size, ".csv">>
block_file(size, bk) == <<"block/block_matrix_", size, "_block_", bk, ".csv">>

SweepSides == 1..3

Paths ==
    {basic_file(n) : n \in SweepSides} \cup {line_file(n) : n \in SweepSides}
        \cup {block_file(n, k) : n \in SweepSides, k \in 1..3}

NoFile == "no file"

\* write_csv_record with the header written on every call
WriteCsvRecordHeaderEveryCall(fs, file_path, record, header) ==
    LET opened == IF fs[file_path] # NoFile THEN fs[file_path] ELSE <<>>
    IN [fs EXCEPT ![file_path] = Append(Append(opened, header), record)]

\* write_csv_record: metadata(file_path).is_ok(), open with append and
\* create, the header if the file did not exist, the record, flush
WriteCsvRecord(fs, file_path, record, header) ==
    LET file_exists == fs[file_path] # NoFile
        opened == IF file_exists THEN fs[file_path] ELSE <<>>
        with_header == IF ~file_exists THEN Append(opened, header) ELSE opened
    IN [fs EXCEPT ![file_path] = Append(with_header, record)]

\* the timing records a CSV file of main holds: its records but the header
TimingRecords(f) ==
    IF f = NoFile THEN 0 ELSE Cardinality({x \in DOMAIN f : f[x] # Header})

\* a configuration of main ends: its loop `for iter in 0..iterations` is over
FinishedConfig(config) ==
    {[config |-> config, n |-> iterations, invoked |-> iter, recorded |-> recorded]}

DInit ==
    /\ dpc = "start"
    /\ iterations = 0
    /\ test_flag = FALSE
    /\ size_idx = 1
    /\ bk_idx = 1
    /\ iter = 0
    /\ files = [p \in Paths |-> NoFile]
    /\ calls = [p \in Paths |-> <<>>]
    /\ warnings = 0
    /\ runs = 0
    /\ results_csv = NoFile
    /\ exp_choice = ""
    /\ total_secs = 0
    /\ recorded = 0
    /\ finished = {}

\* the program starts: `iterations` and `test_flag` come from the arguments
MainStart ==
    /\ dpc = "start"
    /\ runs < MaxRuns
    /\ \E n \in 0..MaxIterations, t \in BOOLEAN :
         /\ iterations' = n
         /\ test_flag' = t
    /\ runs' = runs + 1
    /\ size_idx' = 1
    /\ bk_idx' = 1
    /\ iter' = 0
    /\ dpc' = "basic"
    /\ recorded' = 0
    /\ UNCHANGED <<files, calls, warnings, finished>>
    /\ UNCHANGED xvars
    /\ UNCHANGED kvars

\* one timed invocation: on Some the record goes to the file, on None a
\* warning is printed; a panic of the kernel ends the program
Invoke(kn, size, bk, path, next_dpc) ==
    LET r == KernelOutcome(kn, generate_matrix(size), generate_matrix(size), size, bk)
    IN /\ IF r = "Some"
          THEN \E d \in Durations :
                 /\ files' = WriteCsvRecord(files, path, <<ToString(iter), d>>, Header)
                 /\ calls' = [calls EXCEPT ![path] = Append(@, <<ToString(iter), d>>)]
                 /\ warnings' = warnings
          ELSE /\ warnings' = IF r = "None" THEN warnings + 1 ELSE warnings
               /\ UNCHANGED <<files, calls>>
       /\ dpc' = IF r = "panic" THEN "aborted" ELSE next_dpc
       /\ iter' = iter + 1
       /\ recorded' = recorded + TimingRecords(files'[path]) - TimingRecords(files[path])
       /\ UNCHANGED finished

\* for iter in 0..iterations { basic_matrix_multiplication(&a, &b, size) ...
BasicIteration ==
    /\ dpc = "basic"
    /\ iter < iterations
    /\ LET size == basic_sizes(test_flag)[size_idx]
       IN Invoke("basic_matrix_multiplication", size, 0, basic_file(size), "basic")
    /\ UNCHANGED <<iterations, test_flag, size_idx, bk_idx, runs>>
    /\ UNCHANGED xvars
    /\ UNCHANGED kvars

BasicLoopEnd ==
    /\ dpc = "basic"
    /\ iter = iterations
    /\ dpc' = "line"
    /\ iter' = 0
    /\ finished' = FinishedConfig(basic_file(basic_sizes(test_flag)[size_idx]))
    /\ recorded' = 0
    /\ UNCHANGED <<iterations, test_flag, size_idx, bk_idx, files, calls,
                   warnings, runs>>
    /\ UNCHANGED xvars
    /\ UNCHANGED kvars

\* for iter in 0..iterations { line_matrix_multiplication(&a, &b) ...
LineIteration ==
    /\ dpc = "line"
    /\ iter < iterations
    /\ LET size == basic_sizes(test_flag)[size_idx]
       IN Invoke("line_matrix_multiplication", size, 0, line_file(size), "line")
    /\ UNCHANGED <<iterations, test_flag, size_idx, bk_idx, runs>>
    /\ UNCHANGED xvars
    /\ UNCHANGED kvars

\* the next size of experiment 1, or on to experiment 2
LineLoopEnd ==
    /\ dpc = "line"
    /\ iter = iterations
    /\ iter' = 0
    /\ finished' = FinishedConfig(line_file(basic_sizes(test_flag)[size_idx]))
    /\ recorded' = 0
    /\ IF size_idx < Len(basic_sizes(test_flag))
       THEN /\ size_idx' = size_idx + 1
            /\ dpc' = "basic"
       ELSE /\ size_idx' = 1
            /\ dpc' = "block"
    /\ UNCHANGED <<iterations, test_flag, bk_idx, files, calls, warnings, runs>>
    /\ UNCHANGED xvars
    /\ UNCHANGED kvars

\* for iter in 0..iterations { block_matrix_multiplication(&a, &b, block_size) ...
BlockIteration ==
    /\ dpc = "block"
    /\ iter < iterations
    /\ LET size == block_sizes(test_flag)[size_idx]
           block_size == DriverBlockSizes[bk_idx]
       IN Invoke("block_matrix_multiplication", size, block_size,
                 block_file(size, block_size), "block")
    /\ UNCHANGED <<iterations, test_flag, size_idx, bk_idx, runs>>
    /\ UNCHANGED xvars
    /\ UNCHANGED kvars

\* the next block size, the next size, or the end of main
BlockLoopEnd ==
    /\ dpc = "block"
    /\ iter = iterations
    /\ iter' = 0
    /\ finished' = FinishedConfig(block_file(block_sizes(test_flag)[size_idx],
                                             DriverBlockSizes[bk_idx]))
    /\ recorded' = 0
    /\ IF bk_idx < Len(DriverBlockSizes)
       THEN /\ bk_idx' = bk_idx + 1
            /\ UNCHANGED <<size_idx, dpc>>
       ELSE IF size_idx < Len(block_sizes(test_flag))
       THEN /\ bk_idx' = 1
            /\ size_idx' = size_idx + 1
            /\ dpc' = dpc
       ELSE /\ dpc' = "done"
            /\ UNCHANGED <<size_idx, bk_idx>>
    /\ UNCHANGED <<iterations, test_flag, files, calls, warnings, runs>>
    /\ UNCHANGED xvars
    /\ UNCHANGED kvars

\* a driver program is run again, over the files the earlier run left
MainAgain ==
    /\ dpc \in {"done", "x_done"}
    /\ runs < MaxRuns
    /\ dpc' = "start"
    /\ UNCHANGED <<iterations, test_flag, size_idx, bk_idx, iter, files, calls,
                   warnings, runs>>
    /\ UNCHANGED xvars
    /\ UNCHANGED gvars
    /\ UNCHANGED kvars

-----------------------------------------------------------------------------
(* The benchmark driver of extra/parallel.rs: main, run_basic_line, run_block *)

ResultsHeader == "TestType,Size,Method,BlockSize,Duration"

\* writeln!(csv_file, ...): one more line in results.csv
WriteLine(f, line) == Append(f, line)

\* the lines of results.csv, after its header, for one configuration: test
\* type, size, method and block size
ConfigLines(f, config) ==
    Cardinality({x \in 2..Len(f) : /\ f[x][1] = config[1]
                                   /\ f[x][3] = config[3]
                                   /\ f[x][2] = config[2]
                                   /\ f[x][4] = config[4]})

\* File::create("results.csv") truncates the file or creates it; the header
\* is written and the experiment read from stdin
ExtraStart ==
    /\ dpc = "start"
    /\ runs < MaxRuns
    /\ runs' = runs + 1
    /\ results_csv' = WriteLine(<<>>, ResultsHeader)
    /\ \E c \in {"1", "2", "both", "other"} :
         /\ exp_choice' = c
         /\ dpc' = IF c \in {"1", "both"} THEN "x_basic_line"
                   ELSE IF c = "2" THEN "x_read_iterations"
                   ELSE "x_done"
    /\ size_idx' = 1
    /\ bk_idx' = 1
    /\ iter' = 0
    /\ total_secs' = 0
    /\ UNCHANGED <<iterations, test_flag, files, calls, warnings>>
    /\ UNCHANGED gvars
    /\ UNCHANGED kvars

\* run_basic_line, one size: both kernels are called with expect(), each
\* result line is written, and the two results are compared
RunBasicLine ==
    /\ dpc = "x_basic_line"
    /\ LET size == basic_sizes(FALSE)[size_idx]
           aa == generate_matrix(size)
           bb == generate_matrix(size)
           r1 == KernelOutcome("basic_matrix_multiplication", aa, bb, size, 0)
           r2 == KernelOutcome("line_matrix_multiplication", aa, bb, 0, 0)
           line1 == <<"Basic", size, "Basic", "", CHOOSE d \in Durations : TRUE>>
           line2 == <<"Basic", size, "Line", "", CHOOSE d \in Durations : TRUE>>
           last == size_idx = Len(basic_sizes(FALSE))
       IN IF r1 # "Some"
          THEN /\ dpc' = "aborted"
               /\ UNCHANGED <<results_csv, warnings, size_idx, finished>>
          ELSE IF r2 # "Some"
          THEN /\ dpc' = "aborted"
               /\ results_csv' = WriteLine(results_csv, line1)
               /\ UNCHANGED <<warnings, size_idx, finished>>
          ELSE /\ results_csv' = WriteLine(WriteLine(results_csv, line1), line2)
               /\ finished' =
                    {[config |-> c, n |-> 1, invoked |-> 1,
                      recorded |-> ConfigLines(results_csv', c)] :
                        c \in {SubSeq(line1, 1, 4), SubSeq(line2, 1, 4)}}
               /\ warnings' = IF NaiveValue(aa, bb, size)
                                    = NaiveValue(aa, bb, SqrtSide(Len(aa)))
                              THEN warnings ELSE warnings + 1
               /\ size_idx' = IF last THEN 1 ELSE size_idx + 1
               /\ dpc' = IF ~last THEN "x_basic_line"
                         ELSE IF exp_choice = "both" THEN "x_read_iterations"
                         ELSE "x_done"
    /\ UNCHANGED <<iterations, test_flag, bk_idx, iter, files, calls, runs,
                   exp_choice, total_secs, recorded>>
    /\ UNCHANGED kvars

\* run_block reads the iteration count: a number > 0, else 1
ReadIterations ==
    /\ dpc = "x_read_iterations"
    /\ \E n \in 1..MaxIterations : iterations' = n
    /\ size_idx' = 1
    /\ bk_idx' = 1
    /\ iter' = 0
    /\ total_secs' = 0
    /\ dpc' = "x_block"
    /\ UNCHANGED <<test_flag, files, calls, warnings, runs, results_csv, exp_choice>>
    /\ UNCHANGED gvars
    /\ UNCHANGED kvars

\* for _ in 0..iterations { block_matrix_multiplication(..).expect(..);
\* total_secs += elapsed }
RunBlockIteration ==
    /\ dpc = "x_block"
    /\ iter < iterations
    /\ LET size == block_sizes(FALSE)[size_idx]
           r == KernelOutcome("block_matrix_multiplication", generate_matrix(size),
                              generate_matrix(size), 0, DriverBlockSizes[bk_idx])
       IN IF r # "Some"
          THEN /\ dpc' = "aborted"
               /\ UNCHANGED <<iter, total_secs>>
          ELSE /\ total_secs' = total_secs + 1
               /\ iter' = iter + 1
               /\ dpc' = dpc
    /\ UNCHANGED <<iterations, test_flag, size_idx, bk_idx, files, calls, warnings,
                   runs, results_csv, exp_choice>>
    /\ UNCHANGED gvars
    /\ UNCHANGED kvars

\* the average of the block size goes to results.csv as one line; then the
\* next block size, the next size, or the end of run_block
RunBlockLoopEnd ==
    /\ dpc = "x_block"
    /\ iter = iterations
    /\ LET size == block_sizes(FALSE)[size_idx]
           avg_secs == <<total_secs, "/", iterations>>
           line == <<"Block", size, "Block", DriverBlockSizes[bk_idx], avg_secs>>
       IN /\ results_csv' = WriteLine(results_csv, line)
          /\ finished' =
               {[config |-> SubSeq(line, 1, 4), n |-> iterations, invoked |-> iter,
                 recorded |-> ConfigLines(results_csv', SubSeq(line, 1, 4))]}
    /\ iter' = 0
    /\ total_secs' = 0
    /\ IF bk_idx < Len(DriverBlockSizes)
       THEN /\ bk_idx' = bk_idx + 1
            /\ UNCHANGED <<size_idx, dpc>>
       ELSE IF size_idx < Len(block_sizes(FALSE))
       THEN /\ bk_idx' = 1
            /\ size_idx' = size_idx + 1
            /\ dpc' = dpc
       ELSE /\ dpc' = "x_done"
            /\ UNCHANGED <<size_idx, bk_idx>>
    /\ UNCHANGED <<iterations, test_flag, files, calls, warnings, runs, exp_choice,
                   recorded>>
    /\ UNCHANGED kvars

-----------------------------------------------------------------------------

Init == KInit /\ DInit

Next ==
    \/ Call
    \/ CheckDims
    \/ Alloc
    \/ Transpose
    \/ \E debug \in BOOLEAN : BlockCheck(debug)
    \/ ComputeLine
    \/ EnterBlocks
    \/ ComputeBlock
    \/ \E nw \in 1..MaxWorkers : Fork(nw)
    \/ \E u \in DOMAIN units : UnitStart(u)
    \/ \E u \in DOMAIN units : UnitStep(u)
    \/ Join
    \/ JoinPanic
    \/ Return

\* calls of the kernels
Spec == Init /\ [][Next]_vars

DriverNext ==
    \/ MainStart
    \/ BasicIteration
    \/ BasicLoopEnd
    \/ LineIteration
    \/ LineLoopEnd
    \/ BlockIteration
    \/ BlockLoopEnd
    \/ ExtraStart
    \/ RunBasicLine
    \/ ReadIterations
    \/ RunBlockIteration
    \/ RunBlockLoopEnd
    \/ MainAgain

\* runs of the benchmark drivers
SpecDriver == Init /\ [][DriverNext]_vars

-----------------------------------------------------------------------------
(* Claims about the kernels *)

\* C1: for square A, B of side n >= 1 every kernel (transposed, blocked,
\* parallel, any block size >= 1) returns the matrix the naive kernel returns.
C1_AllKernelsEqualNaive ==
    (ReturnedSome /\ side >= 1) => res = NaiveValue(a, b, side)

\* C2: on A = [[1,2],[3,4]], B = [[5,6],[7,8]] every kernel variant, with any
\* block size >= 1, returns [[19,22],[43,50]].
C2_ScenarioProduct ==
    ( /\ Finished
      /\ a = ScenarioA
      /\ b = ScenarioB
      /\ kernel = "basic_matrix_multiplication" => side_arg = 2
      /\ kernel \in BlockedKernels => bk_size >= 1 )
        => (outcome = "Some" /\ res = <<19, 22, 43, 50>>)

\* C3: every kernel returns A when A is multiplied by the identity matrix,
\* with the identity as the right operand and with it as the left operand.
C3_IdentityBothSides ==
    (ReturnedSome /\ side >= 1)
        => /\ b = Identity(side) => res = a
           /\ a = Identity(side) => res = b

\* C4: every kernel given operands of different lengths, or of a length that
\* is no perfect square (for basic_matrix_multiplication: not side * side),
\* returns the error value None; it neither panics nor returns a matrix.
C4_MismatchReturnsError ==
    (Finished /\ DimensionMismatch(kernel, a, b, side_arg)) => outcome = "None"

\* C5: every blocked kernel called with block size 0 returns an error value,
\* and does so before the result is allocated and before b is transposed.
C5_ZeroBlockSizeReturnsError ==
    ( /\ Finished
      /\ kernel \in BlockedKernels
      /\ bk_size = 0
      /\ Len(a) >= 1
      /\ ~DimensionMismatch(kernel, a, b, side_arg) )
        => (outcome = "None" /\ ~res_allocated /\ ~transposed)

\* C6: for side n >= 1 and every block size k >= 1 (dividing n, not dividing
\* n, or >= n) final_mul_block returns the matrix final_mul_line returns.
C6_BlockEqualsLine ==
    ( /\ ReturnedSome
      /\ kernel \in {"final_mul_block", "extra_final_mul_block"}
      /\ side >= 1 )
        => res = FinalMulLineValue(a, b, side)

\* C6 witness: final_mul_block has returned a non-zero product of side 3
\* computed with block size 2, whose last tile in each dimension is clipped.
W6_ClippedTilesReturned ==
    /\ ReturnedSome
    /\ kernel = "final_mul_block"
    /\ side = 3
    /\ bk_size = 2
    /\ res # Zeros(9)

\* the rows of the result that the chunk of unit u reaches into
RowsOf(u) ==
    {o \div side : o \in ChunkStart(u, ChunkSize(side))
                          ..(ChunkStart(u, ChunkSize(side))
                               + ChunkLen(u, Len(res), ChunkSize(side)) - 1)}

\* C7: in the parallel kernels, for every side and worker count, every row of
\* the result belongs to exactly one unit, a unit writes only cells of its
\* own row, and when the units are through every cell of every row has been
\* written.
C7_RowsPartitioned ==
    (kernel \in ParallelKernels /\ pc \in {"par", "computed", "returned"})
        => /\ \A r \in 0..(side - 1) :
                Cardinality({u \in DOMAIN units : r \in RowsOf(u)}) = 1
           /\ \A w \in wrote : (w[2] \div side) \in RowsOf(w[1])
           /\ pc \in {"computed", "returned"}
                => \A o \in 0..(side * side - 1) : \E u \in DOMAIN units :
                       <<u, o>> \in wrote

\* C7 witness: side 3 on 2 workers; two units are running at once, each
\* having written, while the third has not started.
W7_TwoOfThreeUnitsRunning ==
    /\ pc = "par"
    /\ side = 3
    /\ nworkers = 2
    /\ Cardinality(Running(units)) = 2
    /\ \A u \in Running(units) : \E w \in wrote : w[1] = u
    /\ \E u \in DOMAIN units : units[u].st = "pending"

\* C8: a parallel kernel starts its units only after b is transposed, gets
\* past the join only when every unit is done, and returns the matrix its
\* sequential counterpart returns, whatever the interleaving.
C8_ParallelEqualsSequential ==
    kernel \in ParallelKernels
        => /\ (\E u \in DOMAIN units : units[u].st # "pending")
                => (transposed /\ b_transposed = TransposeOf(b, side))
           /\ pc \in {"computed", "returned"}
                => \A u \in DOMAIN units : units[u].st = "done"
           /\ (ReturnedSome /\ kernel = "final_mul_line_parallel")
                => res = FinalMulLineValue(a, b, side)
           /\ (ReturnedSome /\ kernel = "parallel_mul_block")
                => res = FinalMulBlockValue(a, b, side, bk_size)

\* C8 witness: parallel_mul_block has returned a non-zero product of side 3
\* with block size 2 from units that ran on 2 workers.
W8_ParallelBlockReturned ==
    /\ ReturnedSome
    /\ kernel = "parallel_mul_block"
    /\ side = 3
    /\ bk_size = 2
    /\ nworkers = 2
    /\ res # Zeros(9)

\* the indices of one j loop are inside the matrices: row i, inner index k
\* and every j of jlo..jhi-1 are below side, and so are the flat offsets into
\* a, the right operand and the result
IndicesInBounds(s, sd) ==
    /\ 0 <= s.i /\ s.i < sd
    /\ 0 <= s.k /\ s.k < sd
    /\ 0 <= s.jlo /\ s.jlo < s.jhi /\ s.jhi <= sd
    /\ s.i * sd + s.k < sd * sd
    /\ \A j \in s.jlo..(s.jhi - 1) : s.k * sd + j < sd * sd /\ s.i * sd + j < sd * sd

\* the loop indices lp are inside their tiles, and the tiles end at
\* min(origin + bk, side)
InsideClippedTiles(lp, sd, bk) ==
    /\ lp.ii <= lp.i /\ lp.i < Min(lp.ii + bk, sd)
    /\ lp.kk <= lp.k /\ lp.k < Min(lp.kk + bk, sd)
    /\ lp.jj < sd

\* C11: in the blocked kernels, for side n >= 1 and block size k >= 1 (k
\* dividing n or not, k > n), every index of a, of b / b_transposed and of the
\* result lies in 0..n-1 (flat offsets below n*n), edge tiles end at
\* min(origin + k, n), and no access panics.
C11_BlockIndicesInBounds ==
    (kernel \in BlockedKernels /\ bk_size >= 1 /\ side >= 1)
        => /\ pc # "panicked"
           /\ pc = "tiles"
                => /\ IndicesInBounds(SweepAt(kernel, loop, side, bk_size), side)
                   /\ InsideClippedTiles(loop, side, bk_size)
                   /\ SweepAt(kernel, loop, side, bk_size).jhi
                          = Min(loop.jj + bk_size, side)
           /\ \A u \in DOMAIN units :
                /\ units[u].st # "panicked"
                /\ units[u].st = "running"
                     => /\ IndicesInBounds(
                               SweepAt(kernel, units[u].lp, side, bk_size), side)
                        /\ units[u].lp.kk <= units[u].lp.k
                        /\ units[u].lp.k < Min(units[u].lp.kk + bk_size, side)
                        /\ SweepAt(kernel, units[u].lp, side, bk_size).jhi
                               = Min(units[u].lp.jj + bk_size, side)

\* C11 witness: block_matrix_multiplication on side 3 with block size 2 is in
\* the last tile of every dimension, each one row or column wide.
W11_LastTileClipped ==
    /\ kernel = "block_matrix_multiplication"
    /\ pc = "tiles"
    /\ side = 3
    /\ bk_size = 2
    /\ loop.ii = 2 /\ loop.jj = 2 /\ loop.kk = 2

\* 0, 1, ..., n - 1
Ascending(n) == [x \in 1..n |-> x - 1]

\* the k-indices final_mul_line adds to each cell, in its order
FinalMulLineOrder(sd) == RecordAll(NothingAdded(sd * sd), LineSweeps(sd), sd)

\* C13: in final_mul_block and parallel_mul_block, for side n >= 1 and block
\* size k >= 1, the k-indices added to each cell of the result are at every
\* moment 0, 1, 2, ... in ascending order with none skipped or repeated, and
\* over the whole run exactly 0..n-1, the order of final_mul_line.
C13_AscendingKPerCell ==
    ( /\ kernel \in {"final_mul_block", "extra_final_mul_block", "parallel_mul_block"}
      /\ bk_size >= 1
      /\ side >= 1 )
        => /\ \A o \in DOMAIN korder : korder[o] = Ascending(Len(korder[o]))
           /\ pc \in {"computed", "returned"}
                => /\ \A o \in 1..(side * side) : korder[o] = Ascending(side)
                   /\ korder = FinalMulLineOrder(side)

\* C13 witness: final_mul_block on side 3 with block size 2 is about to add
\* k = 2, from the second k tile, to a first cell that holds k = 0, 1 from
\* the first.
W13_SecondKTileReached ==
    /\ kernel = "final_mul_block"
    /\ pc = "tiles"
    /\ side = 3
    /\ bk_size = 2
    /\ loop.kk = 2
    /\ loop.i = 0
    /\ loop.jj = 0
    /\ korder[1] = <<0, 1>>

-----------------------------------------------------------------------------
(* Claims about the driver *)

\* a call of a kernel ends the way KernelOutcome says
CallOutcomeIsKernelOutcome ==
    Finished => outcome = KernelOutcome(kernel, a, b, side_arg, bk_size)

\* no kernel invocation of the driver fails: the warning branches and the
\* abort are never taken
DriverSeesNoFailure == warnings = 0 /\ dpc # "aborted"

IsPrefix(s1, s2) == Len(s1) <= Len(s2) /\ SubSeq(s2, 1, Len(s1)) = s1

\* the file at path p holds the header once, first, then the records of the
\* write_csv_record calls on p in call order
HeaderThenRecords(p) ==
    /\ (calls[p] # <<>>) <=> (files[p] # NoFile)
    /\ files[p] # NoFile
         => /\ files[p] = <<Header>> \o calls[p]
            /\ Cardinality({x \in DOMAIN files[p] : files[p][x] = Header}) = 1

\* C10: after one or more write_csv_record calls on a path that held no file,
\* the file holds the header exactly once, as its first record, then the
\* records in call order; and what a file holds stays a prefix of what it
\* holds after any later call.
C10_HeaderOnceRecordsAppended ==
    /\ [](\A p \in Paths : HeaderThenRecords(p))
    /\ [][\A p \in Paths : files[p] # NoFile
             => (files'[p] # NoFile /\ IsPrefix(files[p], files'[p]))]_vars

\* C10 witness: a file written by two runs of the program: it holds more
\* records than one run writes.
W10_FileAppendedByTwoRuns ==
    /\ runs = 2
    /\ \E p \in Paths : files[p] # NoFile /\ Len(calls[p]) > MaxIterations

\* C12: when a configuration finishes, the driver has invoked the kernel N
\* times for it (N the iteration count it accepted, 1 where it does not
\* iterate) and exactly N timing records for the configuration have been
\* written to the result sink, one for each invocation.
C12_OneRecordPerInvocation ==
    \A c \in finished : c.invoked = c.n /\ c.recorded = c.n

=============================================================================
